---- MODULE Spec2Model ----
(***************************************************************************)
(* The Board class of src/board.py (quantum tic-tac-toe): the grid of      *)
(* cells, the entanglement counter and the quantum circuit that is handed  *)
(* to the simulator, with one action per public method.                    *)
(*                                                                         *)
(* A cell is one of the strings the code stores: " " (empty), "X", "O"     *)
(* (classical) and "X?", "O?" (entangled, pending collapse).               *)
(* The circuit is kept as the number of calls that appended each kind of   *)
(* instruction to it (what QuantumCircuit.count_ops() reports, per call):  *)
(* any call that issues an instruction changes it.                         *)
(***************************************************************************)
EXTENDS Integers, Sequences, FiniteSets, TLC

VARIABLES
    size, cells, entanglement_count, circuit,  \* the Board object
    pc,      \* the caller: "idle", or "returned" from the call described by
    op,      \*   the method called,
    args,    \*   its arguments,
    pre,     \*   the board as it was when the call started,
    result,  \*   what the call returned,
    issued,  \*   and the instructions the call appended to the circuit
    script,  \* the calls a counting caller has made: the step of the scenario,
             \*   the calls with coordinates outside the board, the collapses
             \*   in a row (0 for a free caller)
    wires,   \* the simulator: what the circuit has made of each qubit (see
             \*   Wire); <<>> where the simulator may measure any bits
    ledger,  \* the record of the entangling moves: for each cell the group
             \*   whose tag it carries, {} for none; <<>> where none is kept
    epochs   \* whether can_be_collapsed would have answered True in a state
             \*   since the last collapse (now) and in a state before it
             \*   (before); both FALSE where nobody watches

board == <<size, cells, entanglement_count, circuit>>
vars  == <<size, cells, entanglement_count, circuit,
           pc, op, args, pre, result, issued, script, wires, ledger, epochs>>
\* what a caller without script, simulator, record and watch leaves alone
rest  == <<script, wires, ledger, epochs>>

(***************************************************************************)
(* Bounds of the model.                                                    *)
(***************************************************************************)
\* swap instructions a circuit may hold (the code puts no limit on swaps)
MaxSwaps == 1
\* measurements a circuit may hold (the code puts no limit on collapses)
MaxCollapses == 1
\* the longest list of positions handed to make_entangled_move
MaxPositions == 3

\* calls of collapse_board that the caller of SpecResolve makes
MaxResolves == 2
\* calls with coordinates from outside the board that a caller makes
MaxOutside == 1

\* Board.__init__'s default size
DefaultSize == 3

Marks == {"X", "O"}

(***************************************************************************)
(* Python values returned by the methods.                                  *)
(***************************************************************************)
PyNone     == [type |-> "NoneType", str |-> "", int |-> 0]
PyBool(b)  == [type |-> "bool", str |-> "", int |-> IF b THEN 1 ELSE 0]
PyStr(s)   == [type |-> "str", str |-> s, int |-> 0]
PyInt(n)   == [type |-> "int", str |-> "", int |-> n]
\* the counts dictionary collapse_board returns; its content is not modelled
PyCounts   == [type |-> "dict", str |-> "", int |-> 0]
\* an exception that leaves the method instead of a return value
Raised(e)  == [type |-> "raised", str |-> e, int |-> 0]

Range(s) == {s[i] : i \in DOMAIN s}

(***************************************************************************)
(* Helpers over the board.                                                 *)
(***************************************************************************)
Coords == 0 .. (size - 1)
Indices == 0 .. (size * size - 1)

\* the cell of a flat index: self.cells[i // self.size][i % self.size]
CellAt(i) == cells[i \div size][i % size]

\* str.endswith('?') on the strings a cell can hold
EndsWithQ(s) == \E p \in Marks \cup {" ", ""} : s = p \o "?"

\* Python's list indexing, which self.cells and the quantum register share:
\* an index i of a list of n items is good from -n to n - 1, a negative one
\* counts from the end, and any other raises IndexError
InList(i, n) == i \in (0 - n) .. (n - 1)
At(i, n) == IF i < 0 THEN i + n ELSE i

\* self.cells[row][col] does not raise
InCells(row, col) == InList(row, size) /\ InList(col, size)
\* the cell self.cells[row][col] reads and writes
Row(row) == At(row, size)
Col(col) == At(col, size)

Gates == {"reset", "barrier", "x", "id", "swap", "h", "cx", "ccx", "measure"}

\* QuantumCircuit.<gate>(qargs): one more instruction of that kind; qargs are
\* the qubits (flat cell indices) it acts on
AppendGate(c, gate, qargs) == [c EXCEPT ![gate] = @ + 1]

AllQubits(n) == [i \in 1 .. (n * n) |-> i - 1]

\* self.circuit.<gate>(self.qubits[index], ...) for a list of such calls, in
\* order.  self.qubits[index] raises IndexError on a bad index and the
\* circuit refuses the same qubit twice in one instruction (CircuitError);
\* the instructions appended before the one that raises stay in the circuit
\* (line 78 is done when line 79 raises).  done lists the instructions
\* appended so far, each with the qubits it acts on.
RECURSIVE Issue(_, _, _)
Issue(c, done, calls) ==
    IF calls = <<>> THEN [circuit |-> c, issued |-> done, raised |-> ""]
    ELSE LET gate   == Head(calls).gate
             index  == Head(calls).index
             qubits == [k \in DOMAIN index |-> At(index[k], size * size)]
         IN  IF \E k \in DOMAIN index : ~InList(index[k], size * size)
             THEN [circuit |-> c, issued |-> done, raised |-> "IndexError"]
             ELSE IF \E j, k \in DOMAIN index : j # k /\ qubits[j] = qubits[k]
             THEN [circuit |-> c, issued |-> done, raised |-> "CircuitError"]
             ELSE Issue(AppendGate(c, gate, qubits),
                        Append(done, [gate |-> gate, qubits |-> qubits]),
                        Tail(calls))

(***************************************************************************)
(* Board.__init__                                                          *)
(***************************************************************************)
winning_lines(n) ==
    [i \in 1 .. n |-> [k \in 1 .. n |-> (i - 1) + (k - 1) * n]]
    \o [i \in 1 .. n |-> [k \in 1 .. n |-> (i - 1) * n + (k - 1)]]
    \o << [k \in 1 .. n |-> (k - 1) * (n + 1)],
          [k \in 1 .. n |-> (n - 1) + (k - 1) * (n - 1)] >>

BoardInit(n) ==
    /\ size = n
    /\ entanglement_count = 0
    /\ cells = [r \in 0 .. (n - 1) |-> [c \in 0 .. (n - 1) |-> " "]]
    /\ circuit = AppendGate(
                    AppendGate([g \in Gates |-> 0], "reset", AllQubits(n)),
                    "barrier", AllQubits(n))
    /\ pc = "idle"
    /\ op = "__init__"
    /\ args = <<>>
    /\ pre = <<>>
    /\ result = PyNone
    /\ issued = <<>>
    /\ epochs = [before |-> FALSE, now |-> FALSE]

(***************************************************************************)
(* Board.make_classical_move                                               *)
(***************************************************************************)
\* faulty variant: only a classical mark counts as occupied
make_classical_move_over_pending(row, col, player_mark) ==
    /\ op' = "make_classical_move"
    /\ IF cells[row][col] \notin {"X", "O"}
       THEN /\ cells' = [cells EXCEPT ![row][col] = player_mark]
            /\ LET gate == IF player_mark = "X" THEN "x" ELSE "id"
               IN  /\ circuit' = AppendGate(circuit, gate, <<row * size + col>>)
                   /\ issued' = << [gate |-> gate, qubits |-> <<row * size + col>>] >>
            /\ result' = PyBool(TRUE)
            /\ UNCHANGED <<size, entanglement_count>>
       ELSE /\ result' = PyBool(FALSE)
            /\ issued' = <<>>
            /\ UNCHANGED board

\* faulty variant: only a pending cell counts as occupied
make_classical_move_over_classical(row, col, player_mark) ==
    /\ op' = "make_classical_move"
    /\ IF ~EndsWithQ(cells[Row(row)][Col(col)])
       THEN /\ cells' = [cells EXCEPT ![Row(row)][Col(col)] = player_mark]
            /\ LET gate == IF player_mark = "X" THEN "x" ELSE "id"
               IN  /\ circuit' = AppendGate(circuit, gate, <<row * size + col>>)
                   /\ issued' = << [gate |-> gate, qubits |-> <<row * size + col>>] >>
            /\ result' = PyBool(TRUE)
            /\ UNCHANGED <<size, entanglement_count>>
       ELSE /\ result' = PyBool(FALSE)
            /\ issued' = <<>>
            /\ UNCHANGED board

\* the cell is written (line 51) before the register is indexed (lines 54-55)
make_classical_move(row, col, player_mark) ==
    /\ op' = "make_classical_move"
    /\ IF ~InCells(row, col)
       THEN /\ result' = Raised("IndexError")
            /\ issued' = <<>>
            /\ UNCHANGED board
       ELSE IF cells[Row(row)][Col(col)] = " "
       THEN /\ cells' = [cells EXCEPT ![Row(row)][Col(col)] = player_mark]
            /\ LET index == row * size + col
                   done  == Issue(circuit, <<>>,
                                  << [gate  |-> IF player_mark = "X"
                                                THEN "x" ELSE "id",
                                      index |-> <<index>>] >>)
               IN  /\ circuit' = done.circuit
                   /\ issued' = done.issued
                   /\ result' = IF done.raised = "" THEN PyBool(TRUE)
                                 ELSE Raised(done.raised)
            /\ UNCHANGED <<size, entanglement_count>>
       ELSE /\ result' = PyBool(FALSE)
            /\ issued' = <<>>
            /\ UNCHANGED board

(***************************************************************************)
(* Board.make_swap_move.  QuantumCircuit.swap refuses the same qubit twice *)
(* (CircuitError: duplicate qubit arguments); the exception leaves the     *)
(* method before the cells are exchanged.  The second cell is read only if *)
(* the first is occupied ("and" of line 62).                               *)
(***************************************************************************)
\* faulty variant: the swap instruction is issued, the cells stay as they are
make_swap_move_keeps_cells(row1, col1, row2, col2) ==
    /\ op' = "make_swap_move"
    /\ IF cells[Row(row1)][Col(col1)] # " " /\ cells[Row(row2)][Col(col2)] # " "
          /\ <<row1, col1>> # <<row2, col2>>
       THEN LET qubits == <<row1 * size + col1, row2 * size + col2>>
            IN  /\ circuit' = AppendGate(circuit, "swap", qubits)
                /\ issued' = << [gate |-> "swap", qubits |-> qubits] >>
                /\ result' = PyBool(TRUE)
                /\ UNCHANGED <<size, cells, entanglement_count>>
       ELSE /\ result' = PyBool(FALSE)
            /\ issued' = <<>>
            /\ UNCHANGED board

make_swap_move(row1, col1, row2, col2) ==
    /\ op' = "make_swap_move"
    /\ IF ~InCells(row1, col1)
       THEN /\ result' = Raised("IndexError")
            /\ issued' = <<>>
            /\ UNCHANGED board
       ELSE IF cells[Row(row1)][Col(col1)] = " "
       THEN /\ result' = PyBool(FALSE)
            /\ issued' = <<>>
            /\ UNCHANGED board
       ELSE IF ~InCells(row2, col2)
       THEN /\ result' = Raised("IndexError")
            /\ issued' = <<>>
            /\ UNCHANGED board
       ELSE IF cells[Row(row2)][Col(col2)] # " "
       THEN LET indices == <<row1 * size + col1, row2 * size + col2>>
                done    == Issue(circuit, <<>>,
                                 << [gate |-> "swap", index |-> indices] >>)
            IN  IF done.raised # ""
                THEN /\ result' = Raised(done.raised)
                     /\ issued' = <<>>
                     /\ UNCHANGED board
                ELSE /\ circuit' = done.circuit
                     /\ issued' = done.issued
                     /\ cells' = [r \in Coords |-> [c \in Coords |->
                                    IF <<r, c>> = <<Row(row2), Col(col2)>>
                                    THEN cells[Row(row1)][Col(col1)]
                                    ELSE IF <<r, c>> = <<Row(row1), Col(col1)>>
                                    THEN cells[Row(row2)][Col(col2)]
                                    ELSE cells[r][c]]]
                     /\ result' = PyBool(TRUE)
                     /\ UNCHANGED <<size, entanglement_count>>
       ELSE /\ result' = PyBool(FALSE)
            /\ issued' = <<>>
            /\ UNCHANGED board

(***************************************************************************)
(* Board.make_entangled_move; positions is a sequence of <<row, col>>.     *)
(***************************************************************************)
\* line 73 reads the cells in the order of the list and stops at the first
\* that is occupied ("occupied") or that is no cell at all ("IndexError")
Scan(positions) ==
    LET stop == {k \in DOMAIN positions :
                    \/ ~InCells(positions[k][1], positions[k][2])
                    \/ cells[Row(positions[k][1])][Col(positions[k][2])] # " "}
    IN  IF stop = {} THEN "pass"
        ELSE LET k == CHOOSE k \in stop : \A j \in stop : k <= j
             IN  IF InCells(positions[k][1], positions[k][2])
                 THEN "occupied" ELSE "IndexError"

\* faulty variant: the duplicate check of line 74 is missing
Refused_no_duplicate_check(positions) ==
    \/ Len(positions) \notin {2, 3}
    \/ Scan(positions) = "occupied"

\* the three early returns
Refused(positions) ==
    \/ Len(positions) \notin {2, 3}
    \/ Scan(positions) = "occupied"
    \/ Cardinality(Range(positions)) # Len(positions)

\* faulty variant: only the first two positions are marked
Entangled_first_two(positions, player_mark) ==
    [r \in Coords |-> [c \in Coords |->
        IF \E k \in {1, 2} : <<r, c>> = <<Row(positions[k][1]), Col(positions[k][2])>>
        THEN player_mark \o "?"
        ELSE cells[r][c]]]

\* for row, col in positions: self.cells[row][col] = player_mark + '?'
Entangled(positions, player_mark) ==
    [r \in Coords |-> [c \in Coords |->
        IF \E k \in DOMAIN positions :
              <<r, c>> = <<Row(positions[k][1]), Col(positions[k][2])>>
        THEN player_mark \o "?"
        ELSE cells[r][c]]]

\* the instructions of lines 77-83
EntangleGates(indices) ==
    IF Len(indices) = 2
    THEN << [gate |-> "h",  index |-> <<indices[1]>>],
            [gate |-> "cx", index |-> <<indices[1], indices[2]>>] >>
    ELSE << [gate |-> "h",   index |-> <<indices[1]>>],
            [gate |-> "cx",  index |-> <<indices[1], indices[2]>>],
            [gate |-> "ccx", index |-> <<indices[1], indices[2], indices[3]>>] >>

make_entangled_move(positions, player_mark) ==
    /\ op' = "make_entangled_move"
    /\ IF Len(positions) \in {2, 3} /\ Scan(positions) = "IndexError"
       THEN /\ result' = Raised("IndexError")
            /\ issued' = <<>>
            /\ UNCHANGED board
       ELSE IF Refused(positions)
       THEN /\ result' = PyBool(FALSE)
            /\ issued' = <<>>
            /\ UNCHANGED board
       ELSE LET indices == [k \in DOMAIN positions |->
                               positions[k][1] * size + positions[k][2]]
                done    == Issue(circuit, <<>>, EntangleGates(indices))
            IN  /\ circuit' = done.circuit
                /\ issued' = done.issued
                /\ IF done.raised # ""
                   THEN /\ result' = Raised(done.raised)
                        /\ UNCHANGED <<size, cells, entanglement_count>>
                   ELSE /\ cells' = Entangled(positions, player_mark)
                        /\ entanglement_count' = entanglement_count + 1
                        /\ result' = PyBool(TRUE)
                        /\ UNCHANGED size

(***************************************************************************)
(* Board.can_be_collapsed                                                  *)
(***************************************************************************)
\* faulty variant: a line counts when none of its cells is empty
CanBeCollapsed_occupied_line ==
    /\ entanglement_count >= 3
    /\ \E l \in DOMAIN winning_lines(size) :
          \A k \in DOMAIN winning_lines(size)[l] :
              CellAt(winning_lines(size)[l][k]) # " "

\* faulty variant: two entanglements are enough
CanBeCollapsed_two_suffice ==
    /\ entanglement_count >= 2
    /\ \E l \in DOMAIN winning_lines(size) :
          \A k \in DOMAIN winning_lines(size)[l] :
              EndsWithQ(CellAt(winning_lines(size)[l][k]))

CanBeCollapsed ==
    /\ entanglement_count >= 3
    /\ \E l \in DOMAIN winning_lines(size) :
          \A k \in DOMAIN winning_lines(size)[l] :
              EndsWithQ(CellAt(winning_lines(size)[l][k]))

can_be_collapsed ==
    /\ op' = "can_be_collapsed"
    /\ result' = PyBool(CanBeCollapsed)
    /\ issued' = <<>>
    /\ UNCHANGED board

(***************************************************************************)
(* Board.collapse_board.  max_state is the measured bit string, already    *)
(* reversed so that max_state[i] is the bit of qubit i; which string the   *)
(* simulator reports is its choice.                                        *)
(***************************************************************************)
\* faulty variant: every occupied cell is sampled again
Collapsed_resamples_occupied(v, bit) ==
    IF v # " " THEN (IF bit = "1" THEN "X" ELSE "O") ELSE v

\* faulty variant: a pending cell measured 0 is left pending
Collapsed_only_bit_one(v, bit) ==
    IF EndsWithQ(v) /\ bit = "1" THEN "X" ELSE v

\* faulty variant: an empty cell is resolved like a pending one
Collapsed_fills_empty(v, bit) ==
    IF EndsWithQ(v) \/ v = " " THEN (IF bit = "1" THEN "X" ELSE "O") ELSE v

\* a cell after the loop of lines 112-115; bit is max_state[i]
Collapsed(v, bit) ==
    IF EndsWithQ(v) THEN (IF bit = "1" THEN "X" ELSE "O") ELSE v

collapse_board(max_state) ==
    /\ op' = "collapse_board"
    /\ circuit' = AppendGate(AppendGate(circuit, "barrier", AllQubits(size)),
                             "measure", AllQubits(size))
    /\ issued' = << [gate |-> "barrier", qubits |-> AllQubits(size)],
                    [gate |-> "measure", qubits |-> AllQubits(size)] >>
    /\ cells' = [r \in Coords |-> [c \in Coords |->
                   Collapsed(cells[r][c], max_state[r * size + c])]]
    /\ entanglement_count' = 0
    /\ result' = PyCounts
    /\ UNCHANGED size

\* the simulator fails: transpile, run or result raise, or the counts come
\* back empty and max() raises ValueError (lines 106-109); the barrier and
\* the measurement of lines 103-104 are in the circuit by then
BackendErrors == {"AerError", "ValueError"}

collapse_board_fails(error) ==
    /\ op' = "collapse_board"
    /\ circuit' = AppendGate(AppendGate(circuit, "barrier", AllQubits(size)),
                             "measure", AllQubits(size))
    /\ issued' = << [gate |-> "barrier", qubits |-> AllQubits(size)],
                    [gate |-> "measure", qubits |-> AllQubits(size)] >>
    /\ result' = Raised(error)
    /\ UNCHANGED <<size, cells, entanglement_count>>

(***************************************************************************)
(* Board.check_win                                                         *)
(***************************************************************************)
\* faulty variant: the pending tags are not excluded
WonLines_with_pending ==
    {l \in DOMAIN winning_lines(size) :
        LET line == winning_lines(size)[l]
            first_cell == CellAt(line[1])
        IN  /\ \A k \in DOMAIN line : CellAt(line[k]) = first_cell
            /\ first_cell \notin {" "}}

\* the lines on which the loop of check_win finds a winner
WonLines ==
    {l \in DOMAIN winning_lines(size) :
        LET line == winning_lines(size)[l]
            first_cell == CellAt(line[1])
        IN  /\ \A k \in DOMAIN line : CellAt(line[k]) = first_cell
            /\ first_cell \notin {" ", "X?", "O?"}}

\* faulty variant: a full board is a draw whatever the counter
CheckWin_draw_ignores_counter ==
    IF WonLines # {}
    THEN LET l == CHOOSE l \in WonLines : \A m \in WonLines : l <= m
         IN  PyStr(CellAt(winning_lines(size)[l][1]))
    ELSE IF \A i \in Indices : CellAt(i) \notin {" "}
         THEN PyStr("Draw")
         ELSE PyNone

\* faulty variant: the board counts as full as soon as one cell is taken
CheckWin_any_cell_taken ==
    IF WonLines # {}
    THEN LET l == CHOOSE l \in WonLines : \A m \in WonLines : l <= m
         IN  PyStr(CellAt(winning_lines(size)[l][1]))
    ELSE IF \E i \in Indices : CellAt(i) \notin {" "}
         THEN IF entanglement_count <= 0 THEN PyStr("Draw")
              ELSE PyInt(entanglement_count)
         ELSE PyNone

\* the value check_win returns: the first line won, else the full-board cases
CheckWin ==
    IF WonLines # {}
    THEN LET l == CHOOSE l \in WonLines : \A m \in WonLines : l <= m
         IN  PyStr(CellAt(winning_lines(size)[l][1]))
    ELSE IF \A i \in Indices : CellAt(i) \notin {" "}
         THEN IF entanglement_count <= 0 THEN PyStr("Draw")
              ELSE PyInt(entanglement_count)
         ELSE PyNone

check_win ==
    /\ op' = "check_win"
    /\ result' = CheckWin
    /\ issued' = <<>>
    /\ UNCHANGED board

(***************************************************************************)
(* The caller.  A call runs the whole method; the caller then holds the    *)
(* arguments it passed, the board it passed them on and the value that     *)
(* came back, until it goes on (Return).                                   *)
(***************************************************************************)
Snapshot == [cells |-> cells, entanglement_count |-> entanglement_count,
             circuit |-> circuit, ledger |-> ledger]

Call(a) ==
    /\ pc = "idle"
    /\ pc' = "returned"
    /\ args' = a
    /\ pre' = Snapshot

Return ==
    /\ pc = "returned"
    /\ pc' = "idle"
    /\ op' = "-"
    /\ args' = <<>>
    /\ pre' = <<>>
    /\ result' = PyNone
    /\ issued' = <<>>
    /\ UNCHANGED <<board, script, wires, ledger, epochs>>

\* a list of n positions that goes round the list l again and again
Cycle(l, n) == [k \in 1 .. n |-> l[((k - 1) % Len(l)) + 1]]

BitStrings == [Indices -> {"0", "1"}]

ClassicalMove ==
    /\ \E row, col \in Coords, m \in Marks :
          Call(<<row, col, m>>) /\ make_classical_move(row, col, m)
    /\ UNCHANGED rest

SwapMove ==
    /\ circuit["swap"] < MaxSwaps
    /\ \E row1, col1, row2, col2 \in Coords :
          Call(<<row1, col1, row2, col2>>) /\ make_swap_move(row1, col1, row2, col2)
    /\ UNCHANGED rest

\* the caller passes every list of up to three positions, and longer lists
\* that go round a list of two
EntangledMove ==
    /\ \E n \in 0 .. MaxPositions, m \in Marks :
          \E l \in [1 .. (IF n <= 3 THEN n ELSE 2) -> Coords \X Coords] :
              LET positions == Cycle(l, n)
              IN  Call(<<positions, m>>) /\ make_entangled_move(positions, m)
    /\ UNCHANGED rest

CanBeCollapsedQuery == Call(<<>>) /\ can_be_collapsed /\ UNCHANGED rest

Collapse ==
    /\ circuit["measure"] < MaxCollapses
    /\ \E max_state \in BitStrings : Call(<<max_state>>) /\ collapse_board(max_state)
    /\ UNCHANGED rest

CheckWinQuery == Call(<<>>) /\ check_win /\ UNCHANGED rest

(***************************************************************************)
(* What the instructions make of the qubits, as far as the bits of one     *)
(* measurement go.  A qubit is                                             *)
(*   Zero       measured 0 (reset, never touched since),                   *)
(*   One        measured 1,                                                *)
(*   a set G of qubit numbers: one unit of the group that h and cx (and    *)
(*              ccx) built on the qubits G; the units of one group are     *)
(*              measured equal, 0 or 1,                                    *)
(*   Unknown    anything else: measured 0 or 1, tied to nothing.           *)
(* h on a fresh qubit a gives a new group of a alone; cx(a, b) and         *)
(* ccx(a, a', c) with the controls in one group and a fresh target take    *)
(* the target into the group (the pair and the triple of lines 77-83).  A  *)
(* unit keeps its group when swap moves it to another qubit.  Besides the  *)
(* qubit numbers a group holds one number that no other group holds.       *)
(***************************************************************************)
Zero == {}
One == {0 - 1}
Unknown == {0 - 2}
IsGroup(u) == u # {} /\ \A q \in u : q >= 0

Flip(u) == IF u = Zero THEN One ELSE IF u = One THEN Zero ELSE Unknown

\* a number, not of a qubit, that no group of w holds: two groups made by
\* two h gates on one qubit are two groups
Fresh(w) ==
    LET n == Cardinality(DOMAIN w)
    IN  CHOOSE k \in n .. 2 * n :
            /\ \A q \in DOMAIN w : k \notin w[q]
            /\ \A j \in n .. (k - 1) : \E q \in DOMAIN w : j \in w[q]

\* the target joins the group g
Join(w, g, target) ==
    [q \in DOMAIN w |-> IF q = target \/ w[q] = g THEN g \cup {target} ELSE w[q]]

Wire(w, gate, qargs) ==
    IF gate = "x" THEN [w EXCEPT ![qargs[1]] = Flip(@)]
    ELSE IF gate = "swap"
    THEN [w EXCEPT ![qargs[1]] = w[qargs[2]], ![qargs[2]] = w[qargs[1]]]
    ELSE IF gate = "h"
    THEN [w EXCEPT ![qargs[1]] = IF @ = Zero THEN {qargs[1], Fresh(w)} ELSE Unknown]
    ELSE IF gate = "cx"
    THEN LET control == w[qargs[1]]
             target  == qargs[2]
         IN  IF control = Zero THEN w
             ELSE IF control = One THEN [w EXCEPT ![target] = Flip(@)]
             ELSE IF IsGroup(control) /\ w[target] = Zero
             THEN Join(w, control, target)
             ELSE [w EXCEPT ![target] = Unknown]
    ELSE IF gate = "ccx"
    THEN LET c1     == w[qargs[1]]
             c2     == w[qargs[2]]
             target == qargs[3]
         IN  IF c1 = Zero \/ c2 = Zero THEN w
             ELSE IF c1 = One /\ c2 = One THEN [w EXCEPT ![target] = Flip(@)]
             ELSE IF IsGroup(c1) /\ c1 = c2 /\ w[target] = Zero
             THEN Join(w, c1, target)
             ELSE [w EXCEPT ![target] = Unknown]
    ELSE w  \* id, barrier; reset of the fresh register; the final measurement

\* the qubits after a list of instructions
RECURSIVE Run(_, _)
Run(w, gates) ==
    IF gates = <<>> THEN w
    ELSE Run(Wire(w, Head(gates).gate, Head(gates).qubits), Tail(gates))

\* the bit strings a measurement of the qubits w can give
Honours(w, bits) ==
    \A q \in DOMAIN w :
        /\ w[q] = Zero => bits[q] = "0"
        /\ w[q] = One => bits[q] = "1"
        /\ IsGroup(w[q]) => \A r \in DOMAIN w : w[r] = w[q] => bits[r] = bits[q]


(***************************************************************************)
(* The simulator follows the instructions each call appends.               *)
(***************************************************************************)
Simulate == wires' = Run(wires, issued')

(***************************************************************************)
(* The record of the entangling moves.  A successful make_entangled_move   *)
(* records the group of the cell indices it worked on (line 76), and the   *)
(* number of the group in its epoch (line 85), for the cells it tagged, a  *)
(* successful make_swap_move carries the record of its                     *)
(* two cells along with their contents (line 65), and a collapse_board     *)
(* that returns drops every group (line 116).                              *)
(***************************************************************************)
CellIndex(p) == Row(p[1]) * size + Col(p[2])

Record ==
    ledger' =
        IF op' = "make_entangled_move" /\ result' = PyBool(TRUE)
        THEN LET positions == args'[1]
                 group == {positions[k][1] * size + positions[k][2] :
                              k \in DOMAIN positions}
                          \cup {size * size + entanglement_count'}
             IN  [i \in Indices |->
                    IF \E k \in DOMAIN positions : i = CellIndex(positions[k])
                    THEN group ELSE ledger[i]]
        ELSE IF op' = "make_swap_move" /\ result' = PyBool(TRUE)
        THEN LET cell1 == CellIndex(<<args'[1], args'[2]>>)
                 cell2 == CellIndex(<<args'[3], args'[4]>>)
             IN  [ledger EXCEPT ![cell1] = ledger[cell2], ![cell2] = ledger[cell1]]
        ELSE IF op' = "collapse_board" /\ result' = PyCounts
        THEN [i \in Indices |-> {}]
        ELSE ledger

(***************************************************************************)
(* Spec: a caller that calls any method with any arguments, on a board of  *)
(* size 2.                                                                 *)
(***************************************************************************)
Init == BoardInit(2) /\ script = 0 /\ wires = <<>> /\ ledger = <<>>

Next ==
    \/ ClassicalMove
    \/ SwapMove
    \/ EntangledMove
    \/ CanBeCollapsedQuery
    \/ Collapse
    \/ CheckWinQuery
    \/ Return

Spec == Init /\ [][Next]_vars

(***************************************************************************)
(* SpecPlacement: the default board; classical marks on any cell, and      *)
(* entangling moves that name two or three cells of the bottom row.        *)
(***************************************************************************)
BottomRowLists ==
    {l \in UNION {[1 .. n -> {size - 1} \X Coords] : n \in {2, 3}} :
        \A k \in 1 .. (Len(l) - 1) : l[k][2] < l[k + 1][2]}

EntangleBottomRow ==
    /\ \E positions \in BottomRowLists, m \in Marks :
          Call(<<positions, m>>) /\ make_entangled_move(positions, m)
    /\ UNCHANGED rest

InitDefault == BoardInit(DefaultSize) /\ script = 0 /\ wires = <<>> /\ ledger = <<>>

NextPlacement ==
    \/ ClassicalMove
    \/ EntangleBottomRow
    \/ CheckWinQuery
    \/ Return

SpecPlacement == InitDefault /\ [][NextPlacement]_vars

(***************************************************************************)
(* SpecTrigger: the default board; entangling moves on any two cells       *)
(* (named in index order), classical marks on the centre cell, and the     *)
(* collapse query.                                                         *)
(***************************************************************************)
PairLists ==
    {l \in [1 .. 2 -> Coords \X Coords] :
        l[1][1] * size + l[1][2] < l[2][1] * size + l[2][2]}

EntanglePair ==
    /\ \E positions \in PairLists, m \in Marks :
          Call(<<positions, m>>) /\ make_entangled_move(positions, m)
    /\ UNCHANGED rest

CentreMove ==
    /\ \E m \in Marks :
          Call(<<size \div 2, size \div 2, m>>)
          /\ make_classical_move(size \div 2, size \div 2, m)
    /\ UNCHANGED rest

NextTrigger ==
    \/ EntanglePair
    \/ CentreMove
    \/ CanBeCollapsedQuery
    \/ Return

SpecTrigger == InitDefault /\ [][NextTrigger]_vars

(***************************************************************************)
(* SpecScenario: the default board and the caller of the scenario: three   *)
(* entangling moves, the collapse query after each, then the collapse and  *)
(* check_win.                                                              *)
(***************************************************************************)
Scenario ==
    << [positions |-> << <<0, 0>>, <<0, 1>> >>, mark |-> "X"],
       [positions |-> << <<1, 1>>, <<1, 2>>, <<2, 2>> >>, mark |-> "O"],
       [positions |-> << <<0, 2>>, <<1, 0>>, <<2, 0>> >>, mark |-> "X"] >>

\* the k-th entangling move is the call number 2k - 1
ScenarioEntangle ==
    /\ script \in {0, 2, 4}
    /\ LET e == Scenario[script \div 2 + 1]
       IN  Call(<<e.positions, e.mark>>) /\ make_entangled_move(e.positions, e.mark)
    /\ script' = script + 1
    /\ UNCHANGED <<wires, ledger, epochs>>

ScenarioQuery ==
    /\ script \in {1, 3, 5}
    /\ Call(<<>>) /\ can_be_collapsed
    /\ script' = script + 1
    /\ UNCHANGED <<wires, ledger, epochs>>

ScenarioCollapse ==
    /\ script = 6
    /\ \E max_state \in BitStrings : Call(<<max_state>>) /\ collapse_board(max_state)
    /\ script' = script + 1
    /\ UNCHANGED <<wires, ledger, epochs>>

ScenarioCheckWin ==
    /\ script = 7
    /\ Call(<<>>) /\ check_win
    /\ script' = script + 1
    /\ UNCHANGED <<wires, ledger, epochs>>

NextScenario ==
    \/ ScenarioEntangle
    \/ ScenarioQuery
    \/ ScenarioCollapse
    \/ ScenarioCheckWin
    \/ Return

SpecScenario == InitDefault /\ [][NextScenario]_vars

(***************************************************************************)
(* SpecRange: a board of size 2 and a caller that places classical marks   *)
(* and entangles pairs, and that up to MaxOutside times calls the          *)
(* classical move, the swap or the entangling move on two positions with   *)
(* any coordinates from -size to size.                                     *)
(***************************************************************************)
Reach == (0 - size) .. size

ClassicalMoveAnywhere ==
    /\ script < MaxOutside
    /\ \E row, col \in Reach, m \in Marks :
          Call(<<row, col, m>>) /\ make_classical_move(row, col, m)
    /\ script' = script + 1
    /\ UNCHANGED <<wires, ledger, epochs>>

SwapMoveAnywhere ==
    /\ script < MaxOutside
    /\ \E row1, col1, row2, col2 \in Reach :
          Call(<<row1, col1, row2, col2>>) /\ make_swap_move(row1, col1, row2, col2)
    /\ script' = script + 1
    /\ UNCHANGED <<wires, ledger, epochs>>

EntanglePairAnywhere ==
    /\ script < MaxOutside
    /\ \E p1, p2 \in Reach \X Reach, m \in Marks :
          Call(<< <<p1, p2>>, m >>) /\ make_entangled_move(<<p1, p2>>, m)
    /\ script' = script + 1
    /\ UNCHANGED <<wires, ledger, epochs>>

NextRange ==
    \/ ClassicalMove
    \/ EntanglePair
    \/ ClassicalMoveAnywhere
    \/ SwapMoveAnywhere
    \/ EntanglePairAnywhere
    \/ Return

SpecRange == Init /\ [][NextRange]_vars

(***************************************************************************)
(* SpecBackend: a board of size 2, a caller that calls any method that     *)
(* changes the board, with coordinates of the board, and a simulator that  *)
(* may fail.                                                               *)
(***************************************************************************)
CollapseFails ==
    /\ circuit["measure"] < MaxCollapses
    /\ \E error \in BackendErrors : Call(<<>>) /\ collapse_board_fails(error)
    /\ UNCHANGED rest

NextBackend ==
    \/ ClassicalMove
    \/ SwapMove
    \/ EntangledMove
    \/ Collapse
    \/ CollapseFails
    \/ Return

SpecBackend == Init /\ [][NextBackend]_vars

(***************************************************************************)
(* SpecLedger: a board of size 2, a caller that calls any method with any  *)
(* coordinates of the board, and the record of the entangling moves.       *)
(***************************************************************************)
RecordedSwapMove ==
    /\ circuit["swap"] < MaxSwaps
    /\ \E row1, col1, row2, col2 \in Coords :
          Call(<<row1, col1, row2, col2>>) /\ make_swap_move(row1, col1, row2, col2)
    /\ Record
    /\ UNCHANGED <<script, wires, epochs>>

RecordedEntangledMove ==
    /\ \E n \in 0 .. MaxPositions, m \in Marks :
          \E l \in [1 .. (IF n <= 3 THEN n ELSE 2) -> Coords \X Coords] :
              LET positions == Cycle(l, n)
              IN  Call(<<positions, m>>) /\ make_entangled_move(positions, m)
    /\ Record
    /\ UNCHANGED <<script, wires, epochs>>

RecordedCollapse ==
    /\ circuit["measure"] < MaxCollapses
    /\ \E max_state \in BitStrings : Call(<<max_state>>) /\ collapse_board(max_state)
    /\ Record
    /\ UNCHANGED <<script, wires, epochs>>

InitLedger ==
    /\ BoardInit(2)
    /\ script = 0
    /\ wires = <<>>
    /\ ledger = [i \in Indices |-> {}]

NextLedger ==
    \/ ClassicalMove
    \/ RecordedSwapMove
    \/ RecordedEntangledMove
    \/ RecordedCollapse
    \/ CanBeCollapsedQuery
    \/ CheckWinQuery
    \/ Return

SpecLedger == InitLedger /\ [][NextLedger]_vars

(***************************************************************************)
(* SpecResolve: a board of size 2 and a caller that places classical       *)
(* marks, entangles and collapses, up to MaxResolves times; script counts  *)
(* the collapses since the last other move.                                *)
(***************************************************************************)
PlaceThenResolve ==
    /\ \E row, col \in Coords, m \in Marks :
          Call(<<row, col, m>>) /\ make_classical_move(row, col, m)
    /\ script' = 0
    /\ UNCHANGED <<wires, ledger, epochs>>

EntangleThenResolve ==
    /\ \E n \in {2, 3}, m \in Marks :
          \E positions \in [1 .. n -> Coords \X Coords] :
              Call(<<positions, m>>) /\ make_entangled_move(positions, m)
    /\ script' = 0
    /\ UNCHANGED <<wires, ledger, epochs>>

Resolve ==
    /\ circuit["measure"] < MaxResolves
    /\ \E max_state \in BitStrings : Call(<<max_state>>) /\ collapse_board(max_state)
    /\ script' = script + 1
    /\ UNCHANGED <<wires, ledger, epochs>>

NextResolve ==
    \/ PlaceThenResolve
    \/ EntangleThenResolve
    \/ Resolve
    \/ Return

SpecResolve == Init /\ [][NextResolve]_vars

(***************************************************************************)
(* SpecLedgerRange: a board of size 2, the record of the entangling moves, *)
(* and a caller that places classical marks, collapses, calls check_win    *)
(* and, up to MaxOutside times, entangles two positions with any           *)
(* coordinates from -size to size.                                         *)
(***************************************************************************)
RecordedEntangleAnywhere ==
    /\ script < MaxOutside
    /\ \E p1, p2 \in Reach \X Reach, m \in Marks :
          Call(<< <<p1, p2>>, m >>) /\ make_entangled_move(<<p1, p2>>, m)
    /\ Record
    /\ script' = script + 1
    /\ UNCHANGED <<wires, epochs>>

NextLedgerRange ==
    \/ ClassicalMove
    \/ RecordedEntangleAnywhere
    \/ RecordedCollapse
    \/ CheckWinQuery
    \/ Return

SpecLedgerRange == InitLedger /\ [][NextLedgerRange]_vars

(***************************************************************************)
(* SpecEpochs: the default board and a caller that entangles in the two    *)
(* upper rows, either two cells of a row (named in index order) or a cell  *)
(* and the same cell named once more with its column less size, and that   *)
(* collapses when can_be_collapsed would answer True; the watch notes the  *)
(* states in which it would.                                               *)
(***************************************************************************)
Watch ==
    epochs' =
        IF op' = "collapse_board" /\ result' = PyCounts
        THEN [before |-> epochs.before \/ epochs.now, now |-> CanBeCollapsed']
        ELSE [before |-> epochs.before, now |-> epochs.now \/ CanBeCollapsed']

UpperLists ==
    {l \in [1 .. 2 -> (0 .. 1) \X ((0 - size) .. (size - 1))] :
        /\ l[1][2] >= 0
        /\ l[1][1] = l[2][1]
        /\ l[2][2] > l[1][2] \/ l[2][2] = l[1][2] - size}

WatchedEntangle ==
    /\ \E positions \in UpperLists, m \in Marks :
          Call(<<positions, m>>) /\ make_entangled_move(positions, m)
    /\ Watch
    /\ UNCHANGED <<script, wires, ledger>>

\* the bottom row stays Empty and the bits of its qubits go unread (line
\* 114): the measured strings are told apart by the bits of the upper rows
UpperBitStrings ==
    {bits \in BitStrings : \A i \in Indices : i \div size = size - 1 => bits[i] = "0"}

WatchedCollapse ==
    /\ circuit["measure"] < MaxCollapses
    /\ CanBeCollapsed
    /\ \E max_state \in UpperBitStrings : Call(<<max_state>>) /\ collapse_board(max_state)
    /\ Watch
    /\ UNCHANGED <<script, wires, ledger>>

WatchedQuery ==
    /\ Call(<<>>) /\ can_be_collapsed
    /\ Watch
    /\ UNCHANGED <<script, wires, ledger>>

NextEpochs ==
    \/ WatchedEntangle
    \/ WatchedCollapse
    \/ WatchedQuery
    \/ Return

SpecEpochs == InitDefault /\ [][NextEpochs]_vars

(***************************************************************************)
(* SpecCorrelated: a board of size 2, a caller that calls any method that  *)
(* changes the board, with coordinates of the board, the record of the     *)
(* entangling moves, and a simulator that measures a bit string the        *)
(* circuit can give.                                                       *)
(***************************************************************************)
SimClassicalMove ==
    /\ \E row, col \in Coords, m \in Marks :
          Call(<<row, col, m>>) /\ make_classical_move(row, col, m)
    /\ Simulate
    /\ UNCHANGED <<script, ledger, epochs>>

SimSwapMove ==
    /\ circuit["swap"] < MaxSwaps
    /\ \E row1, col1, row2, col2 \in Coords :
          Call(<<row1, col1, row2, col2>>) /\ make_swap_move(row1, col1, row2, col2)
    /\ Simulate
    /\ Record
    /\ UNCHANGED <<script, epochs>>

SimEntangledMove ==
    /\ \E n \in 0 .. MaxPositions, m \in Marks :
          \E l \in [1 .. (IF n <= 3 THEN n ELSE 2) -> Coords \X Coords] :
              LET positions == Cycle(l, n)
              IN  Call(<<positions, m>>) /\ make_entangled_move(positions, m)
    /\ Simulate
    /\ Record
    /\ UNCHANGED <<script, epochs>>

SimCollapse ==
    /\ circuit["measure"] < MaxCollapses
    /\ \E max_state \in BitStrings :
          /\ Honours(wires, max_state)
          /\ Call(<<max_state>>) /\ collapse_board(max_state)
    /\ Simulate
    /\ Record
    /\ UNCHANGED <<script, epochs>>

InitCorrelated ==
    /\ BoardInit(2)
    /\ script = 0
    /\ wires = [q \in Indices |-> Zero]
    /\ ledger = [i \in Indices |-> {}]

NextCorrelated ==
    \/ SimClassicalMove
    \/ SimSwapMove
    \/ SimEntangledMove
    \/ SimCollapse
    \/ Return

SpecCorrelated == InitCorrelated /\ [][NextCorrelated]_vars

(***************************************************************************)
(* SpecCorrelatedRange: the same simulator and record, and a caller that   *)
(* places classical marks, collapses and, up to MaxOutside times,          *)
(* entangles two positions with any coordinates from -size to size.        *)
(***************************************************************************)
SimEntangleAnywhere ==
    /\ script < MaxOutside
    /\ \E p1, p2 \in Reach \X Reach, m \in Marks :
          Call(<< <<p1, p2>>, m >>) /\ make_entangled_move(<<p1, p2>>, m)
    /\ Simulate
    /\ Record
    /\ script' = script + 1
    /\ UNCHANGED epochs

NextCorrelatedRange ==
    \/ SimClassicalMove
    \/ SimEntangleAnywhere
    \/ SimCollapse
    \/ Return

SpecCorrelatedRange == InitCorrelated /\ [][NextCorrelatedRange]_vars

(***************************************************************************)
(* The vocabulary of the specification, stated apart from the code's       *)
(* string handling.                                                        *)
(***************************************************************************)
Empty == " "
Pending(m) == IF m = "X" THEN "X?" ELSE "O?"
IsPending(v) == v \in {"X?", "O?"}
IsClassical(v) == v \in {"X", "O"}
True == PyBool(TRUE)
False == PyBool(FALSE)
CellSet == Coords \X Coords
Cell(b, p) == b[p[1]][p[2]]
Occupied(b) == {p \in CellSet : Cell(b, p) # Empty}
Full == \A p \in CellSet : Cell(cells, p) # Empty
Lines == Range(winning_lines(size))
\* the position <<row, col>> of a flat index
Pos(i) == <<i \div size, i % size>>
\* some winning line holds the classical mark m in every cell
ClassicalLine(m) == \E line \in Lines : \A i \in Range(line) : Cell(cells, Pos(i)) = m
Returned(method) == pc = "returned" /\ op = method

(***************************************************************************)
(* C1: make_classical_move on a cell that is not Empty returns False and   *)
(* changes no cell, not the counter and not the circuit; on an Empty cell  *)
(* it returns True, sets exactly that cell to the mark and leaves every    *)
(* other cell and the counter as they were.                                *)
(***************************************************************************)
C1_ClassicalMove ==
    Returned("make_classical_move") =>
        LET p == <<args[1], args[2]>>
            m == args[3]
        IN  IF Cell(pre.cells, p) # Empty
            THEN /\ result = False
                 /\ cells = pre.cells
                 /\ entanglement_count = pre.entanglement_count
                 /\ circuit = pre.circuit
            ELSE /\ result = True
                 /\ Cell(cells, p) = m
                 /\ \A q \in CellSet : q # p => Cell(cells, q) = Cell(pre.cells, q)
                 /\ entanglement_count = pre.entanglement_count

\* a classical move on a pending cell has been refused
C1_Witness ==
    /\ Returned("make_classical_move")
    /\ IsPending(Cell(pre.cells, <<args[1], args[2]>>))
    /\ result = False

(***************************************************************************)
(* C2: make_entangled_move returns False whenever the number of positions  *)
(* is not 2 or 3, or a named cell is not Empty, or a position is named     *)
(* twice; such a call changes no cell, not the counter and not the circuit.*)
(***************************************************************************)
C2_EntangleRefused ==
    Returned("make_entangled_move") =>
        LET positions == args[1]
        IN  ( \/ Len(positions) # 2 /\ Len(positions) # 3
              \/ \E k \in DOMAIN positions : Cell(pre.cells, positions[k]) # Empty
              \/ \E j, k \in DOMAIN positions : j # k /\ positions[j] = positions[k] )
            => /\ result = False
               /\ cells = pre.cells
               /\ entanglement_count = pre.entanglement_count
               /\ circuit = pre.circuit

\* two Empty cells of which one was named twice: the move has been refused
C2_Witness ==
    /\ Returned("make_entangled_move")
    /\ Len(args[1]) = 3
    /\ \A k \in 1 .. 3 : Cell(pre.cells, args[1][k]) = Empty
    /\ args[1][1] = args[1][3] /\ args[1][1] # args[1][2]
    /\ pre.entanglement_count > 0
    /\ result = False

(***************************************************************************)
(* C3: a make_entangled_move on 2 or 3 distinct Empty cells succeeds,      *)
(* makes exactly those cells Pending(mark), raises the counter by one and  *)
(* leaves every other cell as it was.                                      *)
(***************************************************************************)
C3_EntangleSucceeds ==
    Returned("make_entangled_move") =>
        LET positions == args[1]
            m == args[2]
        IN  ( /\ Len(positions) \in {2, 3}
              /\ \A k \in DOMAIN positions : Cell(pre.cells, positions[k]) = Empty
              /\ \A j, k \in DOMAIN positions : j # k => positions[j] # positions[k] )
            => /\ result = True
               /\ \A p \in CellSet :
                     IF \E k \in DOMAIN positions : positions[k] = p
                     THEN Cell(cells, p) = Pending(m)
                     ELSE Cell(cells, p) = Cell(pre.cells, p)
               /\ entanglement_count = pre.entanglement_count + 1

\* three cells have been entangled on a board that held a classical mark
C3_Witness ==
    /\ Returned("make_entangled_move")
    /\ Len(args[1]) = 3
    /\ result = True
    /\ \E p \in CellSet : IsClassical(Cell(pre.cells, p))

(***************************************************************************)
(* C4: make_swap_move succeeds exactly when both cells are not Empty and   *)
(* returns False when either is Empty; on success the two cells are        *)
(* exchanged, otherwise nothing changes; the number of occupied cells,     *)
(* every other cell and the counter are unchanged.                         *)
(***************************************************************************)
C4_Swap ==
    Returned("make_swap_move") =>
        LET p1 == <<args[1], args[2]>>
            p2 == <<args[3], args[4]>>
            both == Cell(pre.cells, p1) # Empty /\ Cell(pre.cells, p2) # Empty
        IN  /\ (result = True) <=> both
            /\ ~both => result = False
            /\ both => /\ Cell(cells, p1) = Cell(pre.cells, p2)
                       /\ Cell(cells, p2) = Cell(pre.cells, p1)
            /\ ~both => cells = pre.cells /\ circuit = pre.circuit
            /\ Cardinality(Occupied(cells)) = Cardinality(Occupied(pre.cells))
            /\ \A q \in CellSet : q \notin {p1, p2} => Cell(cells, q) = Cell(pre.cells, q)
            /\ entanglement_count = pre.entanglement_count

(***************************************************************************)
(* C5: collapse_board turns every Pending cell into "X" if its bit of the  *)
(* measured string is 1 and into "O" otherwise, leaves every classical and *)
(* every Empty cell as it was and sets the counter to 0; afterwards no     *)
(* cell is Pending.                                                        *)
(***************************************************************************)
C5_Collapse ==
    Returned("collapse_board") =>
        LET max_state == args[1]
        IN  /\ \A p \in CellSet :
                  LET old == Cell(pre.cells, p)
                      new == Cell(cells, p)
                      bit == max_state[p[1] * size + p[2]]
                  IN  /\ IsPending(old) /\ bit = "1" => new = "X"
                      /\ IsPending(old) /\ bit # "1" => new = "O"
                      /\ ~IsPending(old) => new = old
                      /\ ~IsPending(new)
            /\ entanglement_count = 0

\* a collapse of a board that held an Empty cell, a classical "O" whose bit
\* was 1, and pending cells of both tags, one measured 1 and one measured 0
C5_Witness ==
    /\ Returned("collapse_board")
    /\ \E p, q, r, s \in CellSet :
          /\ Cell(pre.cells, p) = Empty
          /\ Cell(pre.cells, q) = "O" /\ args[1][q[1] * size + q[2]] = "1"
          /\ Cell(pre.cells, r) = "O?" /\ args[1][r[1] * size + r[2]] = "1"
          /\ Cell(pre.cells, s) = "O?" /\ args[1][s[1] * size + s[2]] = "0"

(***************************************************************************)
(* C7: check_win returns a mark only if some winning line holds that mark  *)
(* in every cell as a classical mark; it never returns a pending tag.      *)
(***************************************************************************)
C7_WinnerIsClassicalLine ==
    Returned("check_win") =>
        /\ result.type = "str" => result.str \in {"X", "O", "Draw"}
        /\ \A m \in Marks : result = PyStr(m) => ClassicalLine(m)

\* check_win has reported no winner on a board with a line of equal pending tags
C7_Witness ==
    /\ Returned("check_win")
    /\ result = PyNone
    /\ \E line \in Lines : \A i \in Range(line) : Cell(cells, Pos(i)) = "X?"

(***************************************************************************)
(* C8 as stated: on a full board with a non-zero counter check_win returns *)
(* the counter.                                                            *)
(***************************************************************************)
C8_FullBoardReturnsCounter ==
    (Returned("check_win") /\ Full /\ entanglement_count # 0)
        => result = PyInt(entanglement_count)

(***************************************************************************)
(* C8 amended: on a full board with a non-zero counter check_win returns   *)
(* the counter if no winning line holds three equal classical marks, and   *)
(* the mark of such a line if there is one.                                *)
(***************************************************************************)
C8_FullBoardNoLineReturnsCounter ==
    (Returned("check_win") /\ Full /\ entanglement_count # 0)
        => IF \E m \in Marks : ClassicalLine(m)
           THEN \E m \in Marks : ClassicalLine(m) /\ result = PyStr(m)
           ELSE result = PyInt(entanglement_count)

\* check_win has returned the counter on a full board
C8_Witness ==
    /\ Returned("check_win")
    /\ Full
    /\ entanglement_count # 0
    /\ result = PyInt(entanglement_count)

(***************************************************************************)
(* C6: can_be_collapsed returns True if and only if the counter is at      *)
(* least 3 and some winning line has every cell Pending, whatever the      *)
(* tags; the query changes no cell and not the counter.                    *)
(***************************************************************************)
C6_Trigger ==
    Returned("can_be_collapsed") =>
        /\ result \in {True, False}
        /\ (result = True) <=>
              /\ pre.entanglement_count >= 3
              /\ \E line \in Lines :
                    \A i \in Range(line) : IsPending(Cell(pre.cells, Pos(i)))
        /\ cells = pre.cells
        /\ entanglement_count = pre.entanglement_count

\* the query has answered False with three entanglements and a winning line
\* that is fully occupied, by a classical mark and pending cells
C6_Witness ==
    /\ Returned("can_be_collapsed")
    /\ result = False
    /\ entanglement_count >= 3
    /\ \E line \in Lines :
          /\ \A i \in Range(line) : Cell(cells, Pos(i)) # Empty
          /\ \E i \in Range(line) : IsClassical(Cell(cells, Pos(i)))

(***************************************************************************)
(* C9: check_win returns "Draw" exactly when no winning line holds three   *)
(* equal classical marks, every cell is occupied and the counter is 0; a   *)
(* board with an Empty cell and no such line yields None.                  *)
(***************************************************************************)
C9_Draw ==
    Returned("check_win") =>
        /\ (result = PyStr("Draw")) <=>
              /\ ~ \E m \in Marks : ClassicalLine(m)
              /\ Full
              /\ entanglement_count = 0
        /\ (~Full /\ ~ \E m \in Marks : ClassicalLine(m)) => result = PyNone

\* nine classical placements, no line of three: check_win has returned "Draw"
C9_Witness ==
    /\ Returned("check_win")
    /\ circuit["x"] + circuit["id"] = size * size
    /\ ~ \E m \in Marks : ClassicalLine(m)
    /\ result = PyStr("Draw")

(***************************************************************************)
(* C10: in the scenario the three entangling moves succeed and leave the   *)
(* counter at 1, 2 and 3; the collapse query answers False after the first *)
(* and the second and True after the third, when the top row is all        *)
(* Pending; after the collapse the counter is 0 and check_win returns a    *)
(* mark of a classical line, "Draw" or None, never the counter.            *)
(***************************************************************************)
C10_Scenario ==
    pc = "returned" =>
        /\ script \in {1, 3, 5} =>
              /\ result = True
              /\ entanglement_count = (script + 1) \div 2
        /\ script = 1 => Cell(cells, <<0, 0>>) = "X?" /\ Cell(cells, <<0, 1>>) = "X?"
        /\ script \in {2, 4} => result = False
        /\ script = 6 =>
              /\ result = True
              /\ \A c \in Coords : IsPending(Cell(cells, <<0, c>>))
        /\ script = 7 => entanglement_count = 0
        /\ script = 8 =>
              /\ entanglement_count = 0
              /\ result \in {PyStr("X"), PyStr("O"), PyStr("Draw"), PyNone}
              /\ \A m \in Marks : result = PyStr(m) => ClassicalLine(m)

\* the scenario has run to its end and check_win has named a winner
C10_Witness ==
    /\ pc = "returned"
    /\ script = 8
    /\ result = PyStr("X")

(***************************************************************************)
(* C11 as stated: in the scenario exactly 6 cells are Pending when the     *)
(* collapse is called, and the collapse makes all of them classical.       *)
(***************************************************************************)
PendingCells(b) == {p \in CellSet : IsPending(Cell(b, p))}

C11_SixPending ==
    (pc = "returned" /\ script = 7) =>
        /\ Cardinality(PendingCells(pre.cells)) = 6
        /\ \A p \in PendingCells(pre.cells) : IsClassical(Cell(cells, p))

(***************************************************************************)
(* C11 amended: in the scenario exactly 8 cells (2 + 3 + 3, every cell but *)
(* (2,1)) are Pending when the collapse is called, and the collapse makes  *)
(* all 8 of them classical.                                                *)
(***************************************************************************)
C11_EightPending ==
    (pc = "returned" /\ script = 7) =>
        /\ Returned("collapse_board")
        /\ Cardinality(PendingCells(pre.cells)) = 8
        /\ PendingCells(pre.cells) = CellSet \ {<<2, 1>>}
        /\ \A p \in PendingCells(pre.cells) : IsClassical(Cell(cells, p))

\* the collapse of the scenario has returned, with cells measured 1 and 0
C11_Witness ==
    /\ pc = "returned"
    /\ script = 7
    /\ \E p, q \in PendingCells(pre.cells) :
          Cell(cells, p) = "X" /\ Cell(cells, q) = "O"

(***************************************************************************)
(* C12: a make_classical_move, make_swap_move or make_entangled_move that  *)
(* names a row or a column outside 0 .. size - 1 returns False (it neither *)
(* raises nor succeeds) and changes no cell, not the counter and not the   *)
(* circuit.                                                                *)
(***************************************************************************)
Outside(p) == p[1] \notin Coords \/ p[2] \notin Coords

NamesOutside ==
    \/ Returned("make_classical_move") /\ Outside(<<args[1], args[2]>>)
    \/ Returned("make_swap_move")
          /\ (Outside(<<args[1], args[2]>>) \/ Outside(<<args[3], args[4]>>))
    \/ Returned("make_entangled_move")
          /\ \E k \in DOMAIN args[1] : Outside(args[1][k])

C12_OutsideIsRefused ==
    NamesOutside =>
        /\ result = False
        /\ cells = pre.cells
        /\ entanglement_count = pre.entanglement_count
        /\ circuit = pre.circuit

(***************************************************************************)
(* C13: when the backend call of make_classical_move, make_swap_move,      *)
(* make_entangled_move or collapse_board fails, the caller gets an error   *)
(* and the cells and the counter are what they were before the call; no    *)
(* call leaves a cell changed without its instruction in the circuit, or   *)
(* an instruction in the circuit without its change of the cells.          *)
(***************************************************************************)
C13_Transactional ==
    (pc = "returned" /\ result.type = "raised") =>
        /\ cells = pre.cells
        /\ entanglement_count = pre.entanglement_count
        /\ circuit = pre.circuit

(***************************************************************************)
(* C14: a cell that holds a classical mark keeps it through every call,    *)
(* except through a successful make_swap_move that names the cell; and a   *)
(* successful swap leaves both of its cells occupied.                      *)
(***************************************************************************)
C14_ClassicalIsKept ==
    pc = "returned" =>
        /\ \A p \in CellSet :
              (IsClassical(Cell(pre.cells, p)) /\ Cell(cells, p) # Cell(pre.cells, p))
                 => /\ op = "make_swap_move"
                    /\ result = True
                    /\ p \in {<<args[1], args[2]>>, <<args[3], args[4]>>}
        /\ (op = "make_swap_move" /\ result = True)
              => /\ Cell(cells, <<args[1], args[2]>>) # Empty
                 /\ Cell(cells, <<args[3], args[4]>>) # Empty

\* a swap has moved a pending tag onto a cell that held a classical mark
C14_Witness ==
    /\ Returned("make_swap_move")
    /\ result = True
    /\ \E p \in CellSet : IsClassical(Cell(pre.cells, p)) /\ IsPending(Cell(cells, p))

(***************************************************************************)
(* C15 as stated: with the ledger taken as the groups of cell indices that *)
(* the successful entangling moves since the last collapse recorded, every *)
(* Pending cell has its index in a group of the ledger.                    *)
(***************************************************************************)
LedgerGroups == {ledger[i] : i \in Indices} \ {{}}

C15_PendingIndexInLedger ==
    \A i \in Indices :
        IsPending(CellAt(i)) => \E group \in LedgerGroups : i \in group

(***************************************************************************)
(* C15 amended: with the record of a group carried along by each           *)
(* successful swap, a cell is Pending exactly if it carries the tag of a   *)
(* group of the ledger.                                                    *)
(***************************************************************************)
C15_PendingCarriesGroup ==
    \A i \in Indices :
        /\ IsPending(CellAt(i)) <=> ledger[i] # {}
        /\ ledger[i] # {} => ledger[i] \in LedgerGroups

\* a swap has moved a Pending tag to a cell that no group of the ledger names
C15_Witness ==
    /\ Returned("make_swap_move")
    /\ result = True
    /\ \E i \in Indices :
          /\ IsPending(CellAt(i))
          /\ ledger[i] # {}
          /\ \A group \in LedgerGroups : i \notin group

(***************************************************************************)
(* C16: collapse_board on a board without a Pending cell returns (it does  *)
(* not raise), changes no cell and leaves the counter at 0; a second       *)
(* collapse_board right after a first leaves the cells and the counter as  *)
(* the first left them.                                                    *)
(***************************************************************************)
C16_ResolveIdempotent ==
    Returned("collapse_board") =>
        /\ PendingCells(pre.cells) = {} =>
              /\ result = PyCounts
              /\ cells = pre.cells
              /\ pre.entanglement_count = 0
              /\ entanglement_count = 0
        /\ script >= 2 =>
              /\ result = PyCounts
              /\ cells = pre.cells
              /\ entanglement_count = pre.entanglement_count

\* a second collapse in a row has returned, on a board with a classical mark
\* and an empty cell, with a measured bit 1 for the empty cell
C16_Witness ==
    /\ Returned("collapse_board")
    /\ script = 2
    /\ \E p, q \in CellSet :
          /\ IsClassical(Cell(cells, p))
          /\ Cell(cells, q) = Empty /\ args[1][q[1] * size + q[2]] = "1"

(***************************************************************************)
(* C17: the counter is the number of successful entangling moves since the *)
(* last collapse; a call changes it only by adding 1 (a successful         *)
(* make_entangled_move) or by setting it to 0 (collapse_board); the number *)
(* P of Pending cells is at least twice and at most three times the        *)
(* counter, so the counter is 0 exactly if no cell is Pending; and         *)
(* check_win never returns "Draw" while a cell is Pending.                 *)
(***************************************************************************)
C17_CounterInvariants ==
    LET P == Cardinality(PendingCells(cells))
    IN  /\ entanglement_count = Cardinality(LedgerGroups)
        /\ (pc = "returned" /\ entanglement_count # pre.entanglement_count) =>
              \/ /\ op = "make_entangled_move"
                 /\ result = True
                 /\ entanglement_count = pre.entanglement_count + 1
              \/ /\ op = "collapse_board"
                 /\ entanglement_count = 0
        /\ 2 * entanglement_count <= P
        /\ P <= 3 * entanglement_count
        /\ (entanglement_count = 0) <=> (P = 0)
        /\ (Returned("check_win") /\ result = PyStr("Draw")) => P = 0

(***************************************************************************)
(* C18: no call turns an occupied cell into an Empty one; a successful     *)
(* make_classical_move lowers the number of Empty cells by 1 and a         *)
(* successful make_entangled_move by 2 or 3; so a run has at most          *)
(* size * size successful calls of the two, and at most size * size \div 2 *)
(* successful entangling moves.  (Every successful classical move appends  *)
(* one x or id, every successful entangling move one cx.)                  *)
(***************************************************************************)
EmptyCells(b) == {p \in CellSet : Cell(b, p) = Empty}

C18_EmptyNeverIncreases ==
    /\ pc = "returned" =>
          /\ EmptyCells(cells) \subseteq EmptyCells(pre.cells)
          /\ (op = "make_classical_move" /\ result = True) =>
                Cardinality(EmptyCells(cells)) = Cardinality(EmptyCells(pre.cells)) - 1
          /\ (op = "make_entangled_move" /\ result = True) =>
                Cardinality(EmptyCells(pre.cells)) - Cardinality(EmptyCells(cells))
                   \in {2, 3}
    /\ circuit["x"] + circuit["id"] + circuit["cx"] <= size * size
    /\ circuit["cx"] <= (size * size) \div 2

(***************************************************************************)
(* C19: on the default board no run has two states, with a collapse        *)
(* between them, in both of which can_be_collapsed would answer True.      *)
(***************************************************************************)
C19_TriggerInOneEpoch == epochs.before => ~CanBeCollapsed

(***************************************************************************)
(* C20: with a simulator that measures the units of one group equal, a     *)
(* collapse_board resolves the cells that carry the tags of one group of   *)
(* the ledger, wherever swaps have taken them, to one classical mark: all  *)
(* "X" or all "O".                                                         *)
(***************************************************************************)
C20_GroupResolvesAlike ==
    Returned("collapse_board") =>
        \A i, j \in Indices :
            (pre.ledger[i] # {} /\ pre.ledger[i] = pre.ledger[j])
               => /\ IsClassical(CellAt(i))
                  /\ CellAt(i) = CellAt(j)

====
